---- MODULE Spec2Model ----
(***************************************************************************)
(* A model of src/src/lib/xpm-liquid.ts: the sanitization filters          *)
(* (filterPath, filterPosixPath, filterWin32Path), XpmLiquid.prepareMap    *)
(* and XpmLiquid.performSubstitutions.                                     *)
(*                                                                         *)
(* Strings are sequences of one-character strings.  "LF" and "CR" stand    *)
(* for the line feed and the carriage return, "BS" for the backslash.      *)
(***************************************************************************)
EXTENDS Naturals, Sequences, FiniteSets, TLC

VARIABLES
  platform,   \* os.platform() of the host: fixed for one run of the program
  hostEnv,    \* the live process.env object: variable name -> string
  mapStatus,  \* the caller's last prepareMap call: "none", "returned", "raised"
  map,        \* the XpmLiquidMap that call returned (EmptyMap when none)
  mapError,   \* the error that call raised
  descriptor, \* the package descriptor the caller loaded: fixed for one run
  mapName,    \* the buildConfigurationName argument of that call
  snapshot,   \* what the map's fields read as when prepareMap returned
  call,       \* call id -> the state of that performSubstitutions call
  inflight,   \* the engine's parseAndRender calls not yet answered
  fin,        \* filter run: the input string
  fout,       \* filter run: the output, once fstage = "done"
  fname,      \* filter run: which filter ran
  fstage      \* filter run: "idle" or "done"

vars == <<platform, hostEnv, mapStatus, map, mapError,
          descriptor, mapName, snapshot,
          call, inflight, fin, fout, fname, fstage>>

----------------------------------------------------------------------------
(* Bounds of the model.                                                    *)

\* The longest input of a filter run.
MaxFilterLen == 5
\* The most lines of a multi-line property value.
MaxLines == 2
\* The most parts (literals, placeholders) an input template is made of.
MaxParts == 2
\* The longest string a render call may produce before the model stops
\* following the call.
MaxLen == 7
\* The render calls of one request that the model counts and records: the
\* count stops there and the record keeps the first MaxRenders calls.
MaxRenders == 4

----------------------------------------------------------------------------
(* Strings.                                                                *)

Alnum == {"a", "b", "c", "d", "r", "x", "y", "p", "1", "2"}
Whitespace == {" ", "LF", "CR"}

\* String.prototype.includes for a two-character needle.
Includes2(s, c1, c2) ==
  \E i \in 1..(Len(s) - 1) : s[i] = c1 /\ s[i + 1] = c2

RECURSIVE DropWhileWs(_)
DropWhileWs(s) ==
  IF s # <<>> /\ Head(s) \in Whitespace THEN DropWhileWs(Tail(s)) ELSE s

RECURSIVE DropEndWs(_)
DropEndWs(s) ==
  IF s # <<>> /\ s[Len(s)] \in Whitespace
  THEN DropEndWs(SubSeq(s, 1, Len(s) - 1))
  ELSE s

\* String.prototype.trim.
Trim(s) == DropEndWs(DropWhileWs(s))

RECURSIVE Concat(_)
Concat(ss) == IF ss = <<>> THEN <<>> ELSE Head(ss) \o Concat(Tail(ss))

----------------------------------------------------------------------------
(* The host: os and path facts follow the platform.                        *)

Platforms == {"linux", "win32"}

OsEOL(p) == IF p = "win32" THEN <<"CR", "LF">> ELSE <<"LF">>
PathSep(p) == IF p = "win32" THEN "BS" ELSE "/"
PathDelimiter(p) == IF p = "win32" THEN ";" ELSE ":"

EnvValues == {<<"x">>, <<"y">>}

----------------------------------------------------------------------------
(* Package descriptors.  A JSON value that the code tests with             *)
(* _isJsonObject or against undefined carries its kind; a property value   *)
(* is a string (isArray FALSE, one line) or an array of lines.             *)

StrValue(s) == [isArray |-> FALSE, lines |-> <<s>>]
ArrValue(ls) == [isArray |-> TRUE, lines |-> ls]

NoProperties == [kind |-> "undefined", m |-> <<>>]
ObjProperties(m) == [kind |-> "object", m |-> m]

NoBuildConfigurations == [kind |-> "undefined", m |-> <<>>]
ObjBuildConfigurations(m) == [kind |-> "object", m |-> m]

ConfigEntry(hidden, props) == [hidden |-> hidden, properties |-> props]

NoXpack ==
  [kind |-> "undefined", properties |-> NoProperties,
   buildConfigurations |-> NoBuildConfigurations]
ObjXpack(props, bcs) ==
  [kind |-> "object", properties |-> props, buildConfigurations |-> bcs]

PackageJson(xpack) == [xpack |-> xpack]

NameUndefined == [kind |-> "undefined", s |-> <<>>]
NameNull == [kind |-> "null", s |-> <<>>]
NameString(s) == [kind |-> "string", s |-> s]

\* Functions over a subset of keys: the objects with some keys absent.
PartialFns(keys, values) ==
  UNION {[d -> values] : d \in SUBSET keys}

----------------------------------------------------------------------------
(* General purpose functions.                                              *)

IsJsonObject(value) == value.kind = "object"

\* Array.prototype.join.
RECURSIVE Join(_, _)
Join(lines, eol) ==
  IF lines = <<>> THEN <<>>
  ELSE IF Len(lines) = 1 THEN lines[1]
  ELSE lines[1] \o eol \o Join(Tail(lines), eol)

JoinMultiLineProperties(properties, eol) ==
  [key \in DOMAIN properties |->
    IF properties[key].isArray
    THEN Join(properties[key].lines, eol)
    ELSE properties[key].lines[1]]

----------------------------------------------------------------------------
(* XpmLiquid.prepareMap.                                                   *)

\* A spread in which the keys of a win over those of b.
SpreadBaseWins(a, b) ==
  [k \in DOMAIN a \cup DOMAIN b |-> IF k \in DOMAIN a THEN a[k] ELSE b[k]]

\* The object spread {...a, ...b}: the keys of b win.
Spread(a, b) ==
  [k \in DOMAIN a \cup DOMAIN b |-> IF k \in DOMAIN b THEN b[k] ELSE a[k]]

NoConfiguration ==
  [defined |-> FALSE, name |-> <<>>, hidden |-> FALSE,
   properties |-> NoProperties]

\* The literal of lines 362-395, with properties = {} of line 397.
\* env holds a reference to the live process.env object, not a copy of it.
BaseMap(packageJson, p) ==
  [env |-> "process.env",
   os |-> [EOL |-> OsEOL(p), platform |-> p],
   path |-> [sep |-> PathSep(p), delimiter |-> PathDelimiter(p)],
   package |-> packageJson,
   configuration |-> NoConfiguration,
   properties |-> <<>>]

EmptyMap == BaseMap(PackageJson(NoXpack), "linux")

NoError == [kind |-> "none", arg |-> <<>>]
ErrNoBuildConfigurations == [kind |-> "NoBuildConfigurations", arg |-> <<>>]
ErrNoBuildConfiguration(name) == [kind |-> "NoBuildConfiguration", arg |-> name]

Returns(m) == [ok |-> TRUE, map |-> m, error |-> NoError]
Throws(e) == [ok |-> FALSE, map |-> EmptyMap, error |-> e]

\* buildConfigurationName !== undefined && !== null && .trim() !== ''
NameSupplied(name) == name.kind = "string" /\ Trim(name.s) # <<>>

prepareMap(packageJson, buildConfigurationName, p) ==
  LET xpack == packageJson.xpack
      liquidMap == BaseMap(packageJson, p)
      base == IF IsJsonObject(xpack.properties)
              THEN JoinMultiLineProperties(xpack.properties.m, OsEOL(p))
              ELSE <<>>
      name == buildConfigurationName.s
  IN
  IF ~IsJsonObject(xpack) THEN Returns(liquidMap)
  ELSE IF ~NameSupplied(buildConfigurationName)
  THEN Returns([liquidMap EXCEPT !.properties = base])
  ELSE IF xpack.buildConfigurations.kind = "undefined"
  THEN Throws(ErrNoBuildConfigurations)
  ELSE IF name \notin DOMAIN xpack.buildConfigurations.m
  THEN Throws(ErrNoBuildConfiguration(name))
  ELSE
    LET buildConfiguration == xpack.buildConfigurations.m[name]
        configuration ==
          [defined |-> TRUE, name |-> name,
           hidden |-> buildConfiguration.hidden,
           properties |-> buildConfiguration.properties]
        merged ==
          IF IsJsonObject(buildConfiguration.properties)
          THEN Spread(base,
                 JoinMultiLineProperties(buildConfiguration.properties.m,
                                         OsEOL(p)))
          ELSE base
    IN Returns([liquidMap EXCEPT !.configuration = configuration,
                                 !.properties = merged])

\* What the fields of a map read as: env is read through the reference.
MapView(m, env) ==
  [env |-> env, os |-> m.os, path |-> m.path,
   configuration |-> m.configuration, properties |-> m.properties]

----------------------------------------------------------------------------
(* The rendering engine: Liquid.parseAndRender under the options of the    *)
(* constructor (strictVariables, strictFilters).  A variable name k in a   *)
(* template stands for the path properties.k of the map.  The templates    *)
(* of the model hold no registered tag name, so every tag is a parse       *)
(* error.                                                                  *)

\* "{{ k }}": the placeholder of property k.
Ph(k) == <<"{", "{", k, "}", "}">>

\* The index of the first c1 c2 at or after i, 0 when there is none.
RECURSIVE IndexOf2(_, _, _, _)
IndexOf2(s, c1, c2, i) ==
  IF i + 1 > Len(s) THEN 0
  ELSE IF s[i] = c1 /\ s[i + 1] = c2 THEN i
  ELSE IndexOf2(s, c1, c2, i + 1)

\* The tokens of a template from index i on: text characters, outputs
\* {{ expression }}, and what cannot be parsed.
RECURSIVE Tokens(_, _)
Tokens(s, i) ==
  IF i > Len(s) THEN <<>>
  ELSE IF i < Len(s) /\ s[i] = "{" /\ s[i + 1] = "{"
  THEN LET j == IndexOf2(s, "}", "}", i + 2)
       IN IF j = 0
          THEN <<[kind |-> "unclosed", text |-> <<>>]>>
          ELSE <<[kind |-> "output", text |-> Trim(SubSeq(s, i + 2, j - 1))]>>
               \o Tokens(s, j + 2)
  ELSE IF i < Len(s) /\ s[i] = "{" /\ s[i + 1] = "%"
  THEN <<[kind |-> "tag", text |-> <<>>]>>
  ELSE <<[kind |-> "text", text |-> <<s[i]>>]>> \o Tokens(s, i + 1)

\* strictVariables: a name the context does not define is an error.
Defined(view, expr) ==
  Len(expr) = 1 /\ expr[1] \in DOMAIN view.properties

RenderToken(view, tok) ==
  IF tok.kind = "text" THEN tok.text ELSE view.properties[tok.text[1]]

RenderOk(out) == [ok |-> TRUE, out |-> out, err |-> "none"]
RenderFails(err) == [ok |-> FALSE, out |-> <<>>, err |-> err]

parseAndRender(template, view) ==
  LET toks == Tokens(template, 1)
      idx == 1..Len(toks)
  IN
  IF \E i \in idx : toks[i].kind \in {"unclosed", "tag"}
  THEN RenderFails("ParseError")
  ELSE IF \E i \in idx :
            toks[i].kind = "output" /\ ~Defined(view, toks[i].text)
  THEN RenderFails("UndefinedVariable")
  ELSE RenderOk(Concat([i \in idx |-> RenderToken(view, toks[i])]))

----------------------------------------------------------------------------
(* XpmLiquid.performSubstitutions.  A call runs from one suspension to the *)
(* next in one step: from its start to its first await (or its return),    *)
(* and from the answer of the engine to the next await (or its return).    *)

CallIds == {1, 2}

\* The program's state of a call is pc, map, input, current and substituted
\* and its outcome result or error.  renders, log and last record the
\* parseAndRender calls it made: their number, the first ones, the last.
NoAnswer == [in |-> <<>>, ok |-> TRUE, out |-> <<>>, err |-> "none"]

IdleCall ==
  [pc |-> "idle", map |-> EmptyMap, input |-> <<>>, current |-> <<>>,
   substituted |-> <<>>, renders |-> 0, log |-> <<>>, last |-> NoAnswer,
   result |-> <<>>, error |-> "none"]

Min(a, b) == IF a < b THEN a ELSE b

Record(st, r) ==
  LET entry == [in |-> st.current, ok |-> r.ok, out |-> r.out, err |-> r.err]
  IN [st EXCEPT !.last = entry,
                !.log = IF Len(@) < MaxRenders THEN Append(@, entry) ELSE @]

\* A loop condition that always holds, and one that looks for "{{" alone.
HasMarkerAlways(s) == TRUE

HasMarkerOutputOnly(s) == Includes2(s, "{", "{")

\* The loop condition of line 464.
HasMarker(s) == Includes2(s, "{", "{") \/ Includes2(s, "{", "%")

\* A safety net that breaks the loop after every render call.
NoProgressAlways(substituted, current) == TRUE

\* The safety net of line 470.
NoProgress(substituted, current) == substituted = current

\* return substituted (line 478), or return input (line 455).
Return(st, value) == [st EXCEPT !.pc = "returned", !.result = value]

Raise(st, error) == [st EXCEPT !.pc = "raised", !.error = error]

\* The loop test of line 464 with current and substituted as they stand:
\* either the next parseAndRender call is made or the loop is left.
LoopTest(st) ==
  IF HasMarker(st.current)
  THEN [st EXCEPT !.pc = "awaiting", !.renders = Min(@ + 1, MaxRenders)]
  ELSE Return(st, st.substituted)

\* Lines 451-464: the call up to its first suspension.
Start(st, input, mapGiven, m) ==
  LET st0 == [IdleCall EXCEPT !.input = input, !.map = m]
  IN
  IF ~mapGiven THEN Raise(st0, "AssertionError")
  ELSE IF input = <<>> THEN Return(st0, input)
  ELSE LoopTest([st0 EXCEPT !.current = input, !.substituted = input])

\* A resumption that catches a failed render call and returns the current
\* string.
ResumeSwallowingErrors(st, r) ==
  LET logged == Record(st, r) IN
  IF ~r.ok THEN Return(logged, logged.current)
  ELSE IF NoProgress(r.out, st.current)
  THEN Return(logged, r.out)
  ELSE LoopTest([logged EXCEPT !.substituted = r.out, !.current = r.out])

\* Lines 466-478: the call resumes with the answer r of the engine.
Resume(st, r) ==
  LET logged == Record(st, r) IN
  IF ~r.ok THEN Raise(logged, r.err)
  ELSE IF NoProgress(r.out, st.current)
  THEN Return([logged EXCEPT !.substituted = r.out], r.out)
  ELSE LoopTest([logged EXCEPT !.substituted = r.out, !.current = r.out])

----------------------------------------------------------------------------
(* The sanitization filters.                                               *)

\* A POSIX class without its "/": [^a-zA-Z0-9].
PosixKeptNoSlash == Alnum

\* [^a-zA-Z0-9/] and [^a-zA-Z0-9\\:]: the characters the classes keep.
PosixKept == Alnum \cup {"/"}

Win32Kept == Alnum \cup {"BS", ":"}

RECURSIVE DropWhileNotIn(_, _)
DropWhileNotIn(s, kept) ==
  IF s # <<>> /\ Head(s) \notin kept
  THEN DropWhileNotIn(Tail(s), kept)
  ELSE s

\* input.replace(/[^...]/g, '-'): the class without its "+".
RECURSIVE ReplaceEach(_, _)
ReplaceEach(s, kept) ==
  IF s = <<>> THEN <<>>
  ELSE IF Head(s) \in kept
  THEN <<Head(s)>> \o ReplaceEach(Tail(s), kept)
  ELSE <<"-">> \o ReplaceEach(Tail(s), kept)

\* input.replace(/[^...]+/g, '-'): every maximal run of characters outside
\* `kept` becomes one dash.
RECURSIVE ReplaceRuns(_, _)
ReplaceRuns(s, kept) ==
  IF s = <<>> THEN <<>>
  ELSE IF Head(s) \in kept
  THEN <<Head(s)>> \o ReplaceRuns(Tail(s), kept)
  ELSE <<"-">> \o ReplaceRuns(DropWhileNotIn(Tail(s), kept), kept)

\* fixed.replace(/--/g, '-'): one pass, left to right, over the pairs that
\* do not overlap.
RECURSIVE CollapseDashes(_)
CollapseDashes(s) ==
  IF s = <<>> THEN <<>>
  ELSE IF Len(s) >= 2 /\ s[1] = "-" /\ s[2] = "-"
  THEN <<"-">> \o CollapseDashes(SubSeq(s, 3, Len(s)))
  ELSE <<Head(s)>> \o CollapseDashes(Tail(s))

FixedPath(input, p) ==
  IF p = "win32"
  THEN ReplaceRuns(input, Win32Kept)
  ELSE ReplaceRuns(input, PosixKept)

filterPath(input, p) == CollapseDashes(FixedPath(input, p))

filterPosixPath(input) == CollapseDashes(ReplaceRuns(input, PosixKept))

filterWin32Path(input) == CollapseDashes(ReplaceRuns(input, Win32Kept))

----------------------------------------------------------------------------
(* The inputs of the model.                                                *)

Strings(chars, n) == UNION {[1..k -> chars] : k \in 0..n}

FilterChars == {"a", "/", "BS", "-", " "}
FilterInputs ==
  Strings(FilterChars, MaxFilterLen) \cup {<<"a", "/", "/", "/", "b">>}

EnvKeys == {"E"}

\* Templates: up to MaxParts parts, each a literal character or a
\* placeholder.  Two parts can make an unclosed "{{" or a tag opener "{%".
Parts == {<<"x">>, <<"{">>, <<"%">>, Ph("a"), Ph("b"), Ph("c")}
Templates == {Concat(ps) : ps \in Strings(Parts, MaxParts)}

\* Descriptors whose properties are template fragments: values that refer
\* to one another in chains and in cycles, that grow, and that hold a tag
\* opener.  The configuration d overrides c by a literal.
TemplatePackages ==
  {PackageJson(ObjXpack(
      ObjProperties(m),
      ObjBuildConfigurations(
        [n \in {<<"d">>} |->
          ConfigEntry(FALSE,
            ObjProperties([k \in {"c"} |-> StrValue(<<"x">>)]))]))) :
    m \in {f \in PartialFns({"a", "b", "c"},
                {StrValue(v) : v \in {<<"x">>, Ph("a"), Ph("b"), Ph("c"),
                                      <<"x">> \o Ph("a"), <<"{", "%">>}}) :
            /\ {"a", "b"} \subseteq DOMAIN f
            /\ f["a"].lines[1] \in {<<"x">>, Ph("a"), Ph("b"),
                                    <<"x">> \o Ph("a")}
            /\ f["b"].lines[1] \in {<<"x">>, Ph("a"), Ph("c"), <<"{", "%">>}
            /\ ("c" \in DOMAIN f => f["c"].lines[1] = Ph("a"))}}

TemplateNames == {NameUndefined, NameString(<<"d">>)}

\* Descriptors for prepareMap: with and without an xpack object, base
\* properties and a configurations table; single-line and multi-line
\* values; configurations named "d" and " " (a blank name).
Line(i) == [j \in 1..(i - 1) |-> "p"]
Lines(n) == [i \in 1..n |-> Line(i)]

BaseValues == {StrValue(<<"1">>), ArrValue(Lines(MaxLines))}
ConfigValues == {StrValue(<<"2">>), ArrValue(Lines(MaxLines - 1))}

PropertiesFields(keys, values) ==
  {NoProperties} \cup {ObjProperties(m) : m \in PartialFns(keys, values)}

ConfigEntries ==
  {ConfigEntry(TRUE, ps) : ps \in PropertiesFields({"b", "c"}, ConfigValues)}

BlankEntries ==
  {ConfigEntry(FALSE, ObjProperties([k \in {"b"} |-> StrValue(<<"2">>)]))}

BuildConfigurationsFields ==
  {NoBuildConfigurations}
  \cup {ObjBuildConfigurations(<<>>)}
  \cup {ObjBuildConfigurations([n \in {<<"d">>} |-> e]) : e \in ConfigEntries}
  \cup {ObjBuildConfigurations([n \in {<<" ">>} |-> e]) : e \in BlankEntries}
  \cup {ObjBuildConfigurations(
          [n \in {<<"d">>, <<" ">>} |-> IF n = <<"d">> THEN e ELSE b]) :
        e \in ConfigEntries, b \in BlankEntries}

ConfigPackages ==
  {PackageJson(NoXpack)}
  \cup {PackageJson(ObjXpack(ps, bcs)) :
         ps \in PropertiesFields({"a", "b"}, BaseValues),
         bcs \in BuildConfigurationsFields}

ConfigNames ==
  {NameUndefined, NameNull} \cup
  {NameString(s) : s \in {<<>>, <<" ">>, <<"d">>, <<"r">>, <<"d", " ">>}}

----------------------------------------------------------------------------
(* The operations.                                                         *)

\* The caller calls prepareMap with the descriptor and a name.
PrepareMap(name) ==
  LET r == prepareMap(descriptor, name, platform) IN
  /\ mapStatus' = IF r.ok THEN "returned" ELSE "raised"
  /\ map' = r.map
  /\ mapError' = r.error
  /\ mapName' = name
  /\ snapshot' = MapView(r.map, hostEnv)
  /\ UNCHANGED <<platform, hostEnv, descriptor, call, inflight,
                 fin, fout, fname, fstage>>

\* The host changes an environment variable: process.env[k] = v.
SetEnv(k, v) ==
  /\ hostEnv[k] # v
  /\ hostEnv' = [hostEnv EXCEPT ![k] = v]
  /\ UNCHANGED <<platform, mapStatus, map, mapError, descriptor, mapName,
                 snapshot, call, inflight, fin, fout, fname, fstage>>

\* The parseAndRender call a suspended call waits for.
Requests(c, st) ==
  IF st.pc = "awaiting"
  THEN {[id |-> c, template |-> st.current, done |-> FALSE,
         answer |-> RenderOk(<<>>)]}
  ELSE {}

\* The caller calls performSubstitutions(input, map) with the map it holds
\* (none when it holds none).
Begin(c, input) ==
  /\ call[c].pc = "idle"
  /\ LET st == Start(call[c], input, mapStatus = "returned", map) IN
       /\ call' = [call EXCEPT ![c] = st]
       /\ inflight' = inflight \cup Requests(c, st)
  /\ UNCHANGED <<platform, hostEnv, mapStatus, map, mapError, descriptor,
                 mapName, snapshot, fin, fout, fname, fstage>>

\* The engine settles a parseAndRender call: it renders the template
\* against the map it was given, or fails.
Render(c) ==
  \E req \in inflight :
    /\ req.id = c
    /\ ~req.done
    /\ \E r \in {parseAndRender(req.template,
                                 MapView(call[c].map, hostEnv))} :
         /\ r.ok => Len(r.out) <= MaxLen
         /\ inflight' = (inflight \ {req})
                          \cup {[req EXCEPT !.done = TRUE, !.answer = r]}
    /\ UNCHANGED <<platform, hostEnv, mapStatus, map, mapError, descriptor,
                   mapName, snapshot, call, fin, fout, fname, fstage>>

\* A resumption with the answer to any call that waits, not the call's own.
ContinueAnyAnswer(c) ==
  \E req \in inflight :
    /\ call[c].pc = "awaiting"
    /\ req.done
    /\ LET st == Resume(call[c], req.answer) IN
         /\ call' = [call EXCEPT ![c] = st]
         /\ inflight' = (inflight \ {req}) \cup Requests(c, st)
    /\ UNCHANGED <<platform, hostEnv, mapStatus, map, mapError, descriptor,
                   mapName, snapshot, fin, fout, fname, fstage>>

\* The call resumes from its await with the answer of the engine and runs
\* to its next await or to its end.
Continue(c) ==
  \E req \in inflight :
    /\ req.id = c
    /\ req.done
    /\ LET st == Resume(call[c], req.answer) IN
         /\ call' = [call EXCEPT ![c] = st]
         /\ inflight' = (inflight \ {req}) \cup Requests(c, st)
    /\ UNCHANGED <<platform, hostEnv, mapStatus, map, mapError, descriptor,
                   mapName, snapshot, fin, fout, fname, fstage>>

\* The caller has the outcome of the call and may call again.
Reset(c) ==
  /\ call[c].pc \in {"returned", "raised"}
  /\ call' = [call EXCEPT ![c] = IdleCall]
  /\ UNCHANGED <<platform, hostEnv, mapStatus, map, mapError, descriptor,
                 mapName, snapshot, inflight, fin, fout, fname, fstage>>

RunFilter(name, output) ==
  /\ fstage = "idle"
  /\ fstage' = "done"
  /\ fname' = name
  /\ fout' = output
  /\ UNCHANGED <<platform, hostEnv, mapStatus, map, mapError, descriptor,
                 mapName, snapshot, call, inflight, fin>>

RunFilterPath == RunFilter("filterPath", filterPath(fin, platform))
RunFilterPosixPath == RunFilter("filterPosixPath", filterPosixPath(fin))
RunFilterWin32Path == RunFilter("filterWin32Path", filterWin32Path(fin))

----------------------------------------------------------------------------
(* The specifications.                                                     *)

InitWith(platforms, descriptors, inputs) ==
  /\ platform \in platforms
  /\ hostEnv = [k \in EnvKeys |-> <<"x">>]
  /\ descriptor \in descriptors
  /\ mapStatus = "none"
  /\ map = EmptyMap
  /\ mapError = NoError
  /\ mapName = NameUndefined
  /\ snapshot = MapView(EmptyMap, hostEnv)
  /\ call = [c \in CallIds |-> IdleCall]
  /\ inflight = {}
  /\ fin \in inputs
  /\ fout = <<>>
  /\ fname = "none"
  /\ fstage = "idle"

\* The driver: one caller that prepares maps and expands templates while
\* the host's environment changes.
Init == InitWith({"linux"}, TemplatePackages, {<<>>})

Next ==
  \/ \E name \in TemplateNames : PrepareMap(name)
  \/ \E k \in EnvKeys, v \in EnvValues : SetEnv(k, v)
  \/ \E input \in Templates : Begin(1, input)
  \/ Render(1)
  \/ Continue(1)
  \/ Reset(1)

Spec == Init /\ [][Next]_vars

\* One request at a time, under an engine that answers every call made to
\* it.
NextFair ==
  \/ \E name \in TemplateNames : mapStatus = "none" /\ PrepareMap(name)
  \/ \E input \in Templates : Begin(1, input)
  \/ Render(1)
  \/ Continue(1)

SpecFair ==
  Init /\ [][NextFair]_vars /\ WF_vars(Render(1)) /\ WF_vars(Continue(1))

\* prepareMap over descriptors of every shape.
InitMap == InitWith(Platforms, ConfigPackages, {<<>>})

NextMap ==
  \/ \E name \in ConfigNames : PrepareMap(name)
  \/ \E k \in EnvKeys, v \in EnvValues : SetEnv(k, v)

SpecMap == InitMap /\ [][NextMap]_vars

\* Several calls of performSubstitutions on one driver, each suspended at
\* its await while the others run.  The inputs are single parts.
ConcurrentTemplates == {Concat(ps) : ps \in Strings(Parts, 1)}

NextConcurrent ==
  \/ \E name \in TemplateNames : PrepareMap(name)
  \/ \E c \in CallIds, input \in ConcurrentTemplates : Begin(c, input)
  \/ \E c \in CallIds : Render(c)
  \/ \E c \in CallIds : Continue(c)
  \/ \E c \in CallIds : Reset(c)

SpecConcurrent == Init /\ [][NextConcurrent]_vars

\* The filters, each applied once to an input.
InitFilter == InitWith(Platforms, {PackageJson(NoXpack)}, FilterInputs)

NextFilter ==
  \/ RunFilterPath
  \/ RunFilterPosixPath
  \/ RunFilterWin32Path

SpecFilter == InitFilter /\ [][NextFilter]_vars

----------------------------------------------------------------------------
(* The claims about performSubstitutions.                                  *)

\* A string with neither "{{" nor "{%" in it.
MarkerFree(s) ==
  \A i \in 1..(Len(s) - 1) : ~(s[i] = "{" /\ s[i + 1] \in {"{", "%"})

\* The chain of values from a string on: the string, then the value of the
\* property it is the placeholder of, and so on to a marker-free literal;
\* <<>> when the string does not start such a chain within `fuel` steps.
RECURSIVE Chain(_, _, _)
Chain(s, properties, fuel) ==
  IF MarkerFree(s) THEN <<s>>
  ELSE IF fuel > 0 /\ \E k \in DOMAIN properties : s = Ph(k)
  THEN LET k == CHOOSE k \in DOMAIN properties : s = Ph(k)
           rest == Chain(properties[k], properties, fuel - 1)
       IN IF rest = <<>> THEN <<>> ELSE <<s>> \o rest
  ELSE <<>>

ChainOf(st) == Chain(st.input, st.map.properties, MaxRenders - 1)

Finished(st) == st.pc \in {"returned", "raised"}

\* C1: a template that is the first of a chain of n nested values ending
\* in a marker-free literal is expanded by exactly n render calls, each on
\* the output of the one before, and the call returns the literal.
C1_ChainExpands ==
  \A c \in CallIds :
    LET st == call[c]
        ch == ChainOf(st)
        n == Len(ch) - 1
    IN (Finished(st) /\ st.error # "AssertionError" /\ Len(ch) >= 2) =>
         /\ st.pc = "returned"
         /\ st.renders = n
         /\ Len(st.log) = n
         /\ \A i \in 1..n : /\ st.log[i].ok
                            /\ st.log[i].in = ch[i]
                            /\ st.log[i].out = ch[i + 1]
         /\ st.result = ch[n + 1]

\* A chain of three values was expanded: {{a}} -> {{b}} -> x.
C1_Witness ==
  /\ call[1].pc = "returned"
  /\ Len(ChainOf(call[1])) = 3
  /\ call[1].renders = 2

\* C2: a call whose input has no marker and whose map is given returns the
\* input unchanged and makes no render call; so does a second call on a
\* marker-free result of a call.
C2_MarkerFreeUnchanged ==
  \A c \in CallIds :
    LET st == call[c]
        again == Start(IdleCall, st.result, TRUE, st.map)
    IN /\ (st.pc # "idle" /\ st.error # "AssertionError"
           /\ MarkerFree(st.input)) =>
            /\ st.pc = "returned"
            /\ st.result = st.input
            /\ st.renders = 0
            /\ st.log = <<>>
       /\ (st.pc = "returned" /\ MarkerFree(st.result)) =>
            /\ again.pc = "returned"
            /\ again.result = st.result
            /\ again.renders = 0

\* A call returned an input that holds braces but no marker.
C2_Witness ==
  /\ call[1].pc = "returned"
  /\ call[1].input = <<"%", "{">>
  /\ call[1].renders = 0

\* C3 as stated: a call that returns returns a string with no marker.
C3_ReturnsFullyExpanded ==
  \A c \in CallIds :
    call[c].pc = "returned" => MarkerFree(call[c].result)

\* C3, amended: a call that returns returns a string with no marker, or
\* the string its last render call returned unchanged from its input.
C3_ExpandedOrNoProgress ==
  \A c \in CallIds :
    LET st == call[c] IN
    st.pc = "returned" =>
      \/ MarkerFree(st.result)
      \/ /\ st.renders >= 1
         /\ st.last.ok
         /\ st.last.in = st.last.out
         /\ st.result = st.last.out

\* A call returned a string that still holds a placeholder.
C3_Witness ==
  /\ call[1].pc = "returned"
  /\ ~MarkerFree(call[1].result)
  /\ call[1].renders >= 1

\* The engine would answer with a string longer than the model follows.
Truncated(c) ==
  \E req \in inflight :
    /\ req.id = c
    /\ ~req.done
    /\ LET r == parseAndRender(req.template, MapView(call[c].map, hostEnv))
       IN r.ok /\ Len(r.out) > MaxLen

\* C4: when the engine answers every call, a call of performSubstitutions
\* that waits for the engine eventually returns or raises.
C4_Terminates ==
  (call[1].pc = "awaiting") ~> (Finished(call[1]) \/ Truncated(1))

\* C5: when a render call fails, the call of performSubstitutions raises
\* that error, has no further render call in flight and returns no string.
C5_ErrorPropagates ==
  \A c \in CallIds :
    LET st == call[c] IN
    (st.pc # "idle" /\ ~st.last.ok) =>
      /\ st.pc = "raised"
      /\ st.error = st.last.err
      /\ st.error \in {"ParseError", "UndefinedVariable"}
      /\ st.result = <<>>
      /\ \A req \in inflight : req.id # c

\* A render call failed on the second pass.
C5_Witness ==
  /\ call[1].pc = "raised"
  /\ call[1].renders = 2
  /\ ~call[1].last.ok
  /\ call[1].log[1].ok

----------------------------------------------------------------------------
(* The claims about prepareMap.                                            *)

\* The lines of a value as one string, the end-of-line marker between them.
RECURSIVE JoinedLines(_, _)
JoinedLines(lines, eol) ==
  IF Len(lines) = 0 THEN <<>>
  ELSE IF Len(lines) = 1 THEN lines[1]
  ELSE JoinedLines(SubSeq(lines, 1, Len(lines) - 1), eol)
         \o eol \o lines[Len(lines)]

Flat(value) ==
  IF value.isArray
  THEN JoinedLines(value.lines, OsEOL(platform))
  ELSE value.lines[1]

\* The properties object of a descriptor field, empty when it is none.
PropertiesOf(field) == IF field.kind = "object" THEN field.m ELSE <<>>

HasTable == /\ descriptor.xpack.kind = "object"
            /\ descriptor.xpack.buildConfigurations.kind = "object"

NameFound ==
  /\ HasTable
  /\ mapName.kind = "string"
  /\ mapName.s \in DOMAIN descriptor.xpack.buildConfigurations.m

NonBlank == mapName.kind = "string" /\ Trim(mapName.s) # <<>>

\* The base properties overlaid by those of the configuration asked for.
Overlay ==
  LET base == PropertiesOf(descriptor.xpack.properties)
      conf == PropertiesOf(
                descriptor.xpack.buildConfigurations.m[mapName.s].properties)
  IN [k \in DOMAIN base \cup DOMAIN conf |->
        IF k \in DOMAIN conf THEN Flat(conf[k]) ELSE Flat(base[k])]

\* C6 as stated: for a name found in the configurations table, prepareMap
\* returns a map whose properties are the flattened base properties
\* overlaid by the flattened properties of the configuration.
C6_PropertiesOverlay ==
  (mapStatus # "none" /\ NameFound) =>
     mapStatus = "returned" /\ map.properties = Overlay

\* C6, amended: the same for a name that is non-blank after trimming; for
\* a blank name the properties are the flattened base properties alone.
C6_PropertiesOverlayNonBlank ==
  /\ (mapStatus # "none" /\ NameFound /\ NonBlank) =>
        mapStatus = "returned" /\ map.properties = Overlay
  /\ (mapStatus # "none" /\ NameFound /\ ~NonBlank) =>
        /\ mapStatus = "returned"
        /\ map.properties =
             [k \in DOMAIN PropertiesOf(descriptor.xpack.properties) |->
                Flat(descriptor.xpack.properties.m[k])]

\* The configuration d overrides b, adds c and leaves the multi-line a.
C6_Witness ==
  /\ mapStatus = "returned"
  /\ mapName = NameString(<<"d">>)
  /\ NameFound
  /\ descriptor.xpack.properties.kind = "object"
  /\ DOMAIN descriptor.xpack.properties.m = {"a", "b"}
  /\ descriptor.xpack.properties.m["a"].isArray
  /\ DOMAIN map.properties = {"a", "b", "c"}
  /\ map.properties["b"] = <<"2">>

\* C7: for a name that is non-blank after trimming, prepareMap raises when
\* the descriptor has no configurations table (or no xpack object) or the
\* table has no entry of that name; with a table and no entry, the error
\* is the configuration-not-found error naming the configuration.
C7_MissingConfigurationRaises ==
  (mapStatus # "none" /\ NonBlank /\ ~NameFound) =>
     /\ mapStatus = "raised"
     /\ HasTable => mapError = ErrNoBuildConfiguration(mapName.s)

\* C8: a map that prepareMap returned reads as it did when it was returned.
C8_MapIsSnapshot ==
  mapStatus = "returned" => MapView(map, hostEnv) = snapshot

----------------------------------------------------------------------------
(* The claims about the filters.                                           *)

HasDoubleDash(s) == \E i \in 1..(Len(s) - 1) : s[i] = "-" /\ s[i + 1] = "-"

HasDashRun3(s) ==
  \E i \in 1..(Len(s) - 2) : s[i] = "-" /\ s[i + 1] = "-" /\ s[i + 2] = "-"

IsSlashOrAlnum(ch) == ch = "/" \/ ch \in Alnum

IsDash(ch) == ch = "-"

\* The runs of characters that are neither alphanumeric nor "/".
PosixRuns(s) ==
  Cardinality({i \in 1..Len(s) :
                 /\ ~IsSlashOrAlnum(s[i])
                 /\ (i = 1 \/ IsSlashOrAlnum(s[i - 1]))})

PosixDone == fstage = "done" /\ fname = "filterPosixPath"

\* C9 as stated: filterPosixPath turns "a///b" into "a-b" and leaves no
\* "/" in its output.
C9_SlashesCollapse ==
  PosixDone =>
    /\ fin = <<"a", "/", "/", "/", "b">> => fout = <<"a", "-", "b">>
    /\ \A i \in 1..Len(fout) : fout[i] # "/"

\* C9, amended: filterPosixPath keeps every "/" and every alphanumeric, so
\* "a///b" stays "a///b"; each run of other characters becomes one dash.
C9_SlashesKept ==
  PosixDone =>
    /\ fin = <<"a", "/", "/", "/", "b">> => fout = fin
    /\ SelectSeq(fout, IsSlashOrAlnum) = SelectSeq(fin, IsSlashOrAlnum)
    /\ Len(SelectSeq(fout, IsDash)) = PosixRuns(fin)
    /\ Len(fout) = Len(SelectSeq(fin, IsSlashOrAlnum)) + PosixRuns(fin)
    /\ ~HasDoubleDash(fout)

\* filterPosixPath ran on "a///b".
C9_Witness ==
  /\ PosixDone
  /\ fin = <<"a", "/", "/", "/", "b">>
  /\ fout = <<"a", "/", "/", "/", "b">>

\* C10 as stated: on the host, some input with a run of three or more
\* dashes gives an output with a double dash.
C10_DoubleDashMayRemain ==
  \E s \in FilterInputs :
    /\ HasDashRun3(s)
    /\ \/ HasDoubleDash(filterPath(s, platform))
       \/ HasDoubleDash(filterPosixPath(s))
       \/ HasDoubleDash(filterWin32Path(s))

\* C10, amended: the collapse is one pass over the pairs (on "---" it
\* leaves "--"), but the replacement before it leaves no two dashes side by
\* side, so no output of a filter holds a double dash.
C10_NoDoubleDash ==
  /\ CollapseDashes(<<"-", "-", "-">>) = <<"-", "-">>
  /\ fstage = "done" => ~HasDoubleDash(fout)

\* filterPath ran on an input with a run of three dashes.
C10_Witness ==
  /\ fstage = "done"
  /\ fname = "filterPath"
  /\ HasDashRun3(fin)
  /\ fin[1] = "a"

----------------------------------------------------------------------------
(* The claim about concurrent calls.                                       *)

\* A call run on its own from state st: every render call is answered and
\* the call resumed before anything else happens, for at most `fuel` render
\* calls.
RECURSIVE RunAlone(_, _, _)
RunAlone(st, env, fuel) ==
  IF st.pc = "awaiting" /\ fuel > 0
  THEN RunAlone(Resume(st, parseAndRender(st.current, MapView(st.map, env))),
                env, fuel - 1)
  ELSE st

Alone(st) ==
  RunAlone(Start(IdleCall, st.input, st.error # "AssertionError", st.map),
           hostEnv, MaxLen + MaxRenders)

InFlight(c) == {req \in inflight : req.id = c}

\* C11: with several calls interleaved, a call has at most one render call
\* in flight, and one exactly while it waits; that call is on the call's
\* own current string, which is its input or the answer to its previous
\* render call; and a call that ends ends as it does when run alone.
C11_CallsIsolated ==
  \A c \in CallIds :
    LET st == call[c]
        n == Len(st.log)
    IN /\ Cardinality(InFlight(c)) <= 1
       /\ st.pc = "awaiting" <=> InFlight(c) # {}
       /\ \A req \in InFlight(c) :
            /\ req.template = st.current
            /\ st.renders = 1 => req.template = st.input
            /\ st.renders > 1 => st.last.ok /\ req.template = st.last.out
       /\ n >= 1 => st.log[1].in = st.input
       /\ \A i \in 1..(n - 1) : st.log[i].ok /\ st.log[i + 1].in = st.log[i].out
       /\ Finished(st) =>
            /\ Alone(st).pc = st.pc
            /\ Alone(st).result = st.result
            /\ Alone(st).error = st.error
            /\ Alone(st).renders = st.renders

\* Call 1 returned after two render calls while call 2, on another input,
\* waits for its second render call.
C11_Witness ==
  /\ call[1].pc = "returned"
  /\ call[1].renders = 2
  /\ call[2].pc = "awaiting"
  /\ call[2].renders = 2
  /\ call[2].input # call[1].input
  /\ call[2].current # call[1].result

====
